---- MODULE Spec2Model ----
(***************************************************************************)
(* Connection handlers of the socket.io driver                              *)
(* (src/nonebot_driver_socketio/socketio.py): Driver._handle_http,          *)
(* Driver._handle_ws_reverse and the WebSocket transport wrapper.           *)
(*                                                                          *)
(* Every handler invocation is a coroutine on one event loop: it runs       *)
(* without interruption from one `await` to the next, so each action below  *)
(* is the code between two suspension points.                               *)
(***************************************************************************)
EXTENDS Integers, Sequences, FiniteSets, TLC

(* ---------------------------------------------------------------- bounds *)
\* Handler invocations (connection attempts) in one run.
NumConns == 2
\* Frames delivered to WebSocket.receive over all connections in one run.
MaxFrames == 2

Conns == 1..NumConns

(* ------------------------------------------------------ program constants *)
HTTP_400_BAD_REQUEST == 400
HTTP_404_NOT_FOUND == 404
HTTP_204_NO_CONTENT == 204
WS_1008_POLICY_VIOLATION == 1008
WS_1000_NORMAL_CLOSURE == 1000

(* ------------------------------------------------------------ input sets *)
\* Driver._adapters after tests/bot.py registered the cqhttp adapter.
_adapters == {"cqhttp"}
\* Adapter names a request path can carry.
AdapterNames == {"cqhttp", "ghost"}
\* Identities check_permission can resolve to.
Identities == {"B1", "B2"}
\* Outcomes of check_permission: an identity, or RequestDenied(status, reason).
PermResults ==
    {[ok |-> TRUE, self_id |-> i, status |-> 0, reason |-> ""] : i \in Identities}
    \cup {[ok |-> FALSE, self_id |-> "", status |-> 401, reason |-> "no token"],
          [ok |-> FALSE, self_id |-> "", status |-> 403, reason |-> "bad token"]}
\* Texts of an HTTP body or of a WebSocket text frame.
Texts == {"{\"a\":1}", "{}", "[1]", "oops"}
\* Texts of a WebSocket text frame.
FrameTexts == Texts \cup {"{\"b\":2}"}
\* What one await of websocket.receive_json() can bring.
RecvEvents == FrameTexts \cup {"disconnect", "io_error"}

(* ----------------------------------------------------------------- values *)
None == [type |-> "none", items |-> {}]
NoBot == [type |-> "none", self_id |-> ""]
NoDenial == [status |-> 0, reason |-> ""]
NoResponse == [status |-> 0, detail |-> ""]

\* json.loads on the texts above: the parsed value, or ValueError (ok = FALSE).
json_loads(text) ==
    CASE text = "{\"a\":1}" -> [ok |-> TRUE, value |-> [type |-> "dict", items |-> {<<"a", 1>>}]]
      [] text = "{\"b\":2}" -> [ok |-> TRUE, value |-> [type |-> "dict", items |-> {<<"b", 2>>}]]
      [] text = "{}"        -> [ok |-> TRUE, value |-> [type |-> "dict", items |-> {}]]
      [] text = "[1]"       -> [ok |-> TRUE, value |-> [type |-> "list", items |-> {<<"0", 1>>}]]
      [] OTHER              -> [ok |-> FALSE, value |-> None]

\* isinstance(v, dict)
isinstance_dict(v) == v.type = "dict"

\* Python truth value of a parsed value: None and empty containers are false.
truthy(v) == v.type # "none" /\ v.items # {}

\* adapter in self._adapters
adapter_any(a) == TRUE
adapter_known(a) == a \in _adapters

VARIABLES
    pc,          \* where each handler invocation is suspended
    kind,        \* "http" or "websocket" once the invocation has started
    adapter,     \* the adapter name of the request path
    body,        \* the text of the HTTP request body, once read
    x_self_id,   \* the identity check_permission returned
    denied,      \* the RequestDenied check_permission raised
    bot,         \* the session the handler constructed
    resp,        \* the HTTP response (or HTTPException) of the handler
    exit,        \* how the handler ended: "return" or the exception's name
    ws,          \* the WebSocket wrapper of the invocation
    _clients,    \* Driver._clients: identity -> handler whose session it is
    frames,      \* texts receive() got, per connection, in order
    tasks,       \* dispatch units created for each session, in creation order
    connects,    \* calls of _bot_connect made by each handler
    disconnects, \* calls of _bot_disconnect made by each handler
    peer_gone    \* the peer of the connection has disconnected

vars == <<pc, kind, adapter, body, x_self_id, denied, bot, resp, exit, ws,
          _clients, frames, tasks, connects, disconnects, peer_gone>>

(* -------------------------------------------------------------- transport *)
\* WebSocket.__init__: the wrapper around a framework socket whose handshake
\* is still pending.  error is the exception the last method call raised,
\* last the name of that method, close_code the code sent to the peer.
NewWebSocket ==
    [closed |-> FALSE, app_state |-> "CONNECTING", client_state |-> "CONNECTING",
     close_code |-> 0, error |-> "", last |-> "init"]

\* WebSocket.accept: the framework accepts only a pending handshake; a
\* handshake that fails raises out of accept.
ws_accept_lenient(w, ok) ==
    IF w.app_state = "CONNECTING" /\ ok
    THEN [w EXCEPT !.app_state = "CONNECTED", !.client_state = "CONNECTED",
                   !.closed = FALSE, !.error = "", !.last = "accept"]
    ELSE [w EXCEPT !.closed = FALSE, !.error = "", !.last = "accept"]

ws_accept(w, ok) ==
    IF w.app_state = "CONNECTING" /\ ok
    THEN [w EXCEPT !.app_state = "CONNECTED", !.client_state = "CONNECTED",
                   !.closed = FALSE, !.error = "", !.last = "accept"]
    ELSE [w EXCEPT !.error = "RuntimeError", !.last = "accept"]

\* WebSocket.close: forwards to the framework socket, then sets the flag.
\* The framework refuses to send a second close message.
ws_close(w, code) ==
    IF w.app_state = "DISCONNECTED"
    THEN [w EXCEPT !.error = "RuntimeError", !.last = "close"]
    ELSE [w EXCEPT !.app_state = "DISCONNECTED", !.close_code = code,
                   !.closed = TRUE, !.error = "", !.last = "close"]

\* WebSocket.receive: [ws, data, raised].  A frame that is not a JSON object
\* is logged and gives None; only WebSocketDisconnect sets the flag; any
\* other exception of the framework socket propagates.
ws_receive_strict(w, ev) ==
    IF w.app_state # "CONNECTED" \/ w.client_state # "CONNECTED" \/ ev = "io_error"
    THEN [ws |-> [w EXCEPT !.error = "RuntimeError", !.last = "receive"],
          data |-> None, raised |-> TRUE]
    ELSE IF ev = "disconnect"
    THEN [ws |-> [w EXCEPT !.closed = TRUE, !.client_state = "DISCONNECTED",
                           !.error = "", !.last = "receive"],
          data |-> None, raised |-> FALSE]
    ELSE LET p == json_loads(ev)
         IN IF p.ok /\ isinstance_dict(p.value)
            THEN [ws |-> [w EXCEPT !.error = "", !.last = "receive"],
                  data |-> p.value, raised |-> FALSE]
            ELSE [ws |-> [w EXCEPT !.closed = TRUE, !.error = "", !.last = "receive"],
                  data |-> None, raised |-> FALSE]

\* The same, WebSocketDisconnect handled like a bad frame.
ws_receive_deaf(w, ev) ==
    IF w.app_state # "CONNECTED" \/ w.client_state # "CONNECTED" \/ ev = "io_error"
    THEN [ws |-> [w EXCEPT !.error = "RuntimeError", !.last = "receive"],
          data |-> None, raised |-> TRUE]
    ELSE IF ev = "disconnect"
    THEN [ws |-> [w EXCEPT !.error = "", !.last = "receive"],
          data |-> None, raised |-> FALSE]
    ELSE LET p == json_loads(ev)
         IN [ws |-> [w EXCEPT !.error = "", !.last = "receive"],
             data |-> IF p.ok /\ isinstance_dict(p.value) THEN p.value ELSE None,
             raised |-> FALSE]

ws_receive(w, ev) ==
    IF w.app_state # "CONNECTED" \/ w.client_state # "CONNECTED" \/ ev = "io_error"
    THEN [ws |-> [w EXCEPT !.error = "RuntimeError", !.last = "receive"],
          data |-> None, raised |-> TRUE]
    ELSE IF ev = "disconnect"
    THEN [ws |-> [w EXCEPT !.closed = TRUE, !.client_state = "DISCONNECTED",
                           !.error = "", !.last = "receive"],
          data |-> None, raised |-> FALSE]
    ELSE LET p == json_loads(ev)
         IN [ws |-> [w EXCEPT !.error = "", !.last = "receive"],
             data |-> IF p.ok /\ isinstance_dict(p.value) THEN p.value ELSE None,
             raised |-> FALSE]

\* WebSocket.send: serialises and writes; the flag is never touched.
ws_send(w, ok) ==
    IF w.app_state = "CONNECTED" /\ ok
    THEN [w EXCEPT !.error = "", !.last = "send"]
    ELSE [w EXCEPT !.error = "RuntimeError", !.last = "send"]

(* --------------------------------------------------------------- registry *)
\* Driver._bot_connect: register the session under its identity; an existing
\* entry is left untouched.
_bot_connect(clients, id, b) ==
    IF id \in DOMAIN clients THEN clients
    ELSE [i \in DOMAIN clients \cup {id} |-> IF i = id THEN b ELSE clients[i]]

\* Driver._bot_disconnect: remove the entry of the identity if present.
_bot_disconnect(clients, id) ==
    [i \in DOMAIN clients \ {id} |-> clients[i]]

\* Driver._bot_disconnect raises: never, whether the identity is present
\* or not.
_bot_disconnect_strict(clients, id) == id \notin DOMAIN clients
_bot_disconnect_raises(clients, id) == FALSE

(* --------------------------------------------------------------- dispatch *)
\* asyncio.create_task(bot.handle_message(data)): a new pending unit, behind
\* the units scheduled before it.
create_task_front(ts, b, data) ==
    <<[bot |-> b, payload |-> data, status |-> "pending"]>> \o ts
create_task(ts, b, data) ==
    Append(ts, [bot |-> b, payload |-> data, status |-> "pending"])

Init ==
    /\ pc = [h \in Conns |-> "idle"]
    /\ kind = [h \in Conns |-> "none"]
    /\ adapter = [h \in Conns |-> ""]
    /\ body = [h \in Conns |-> ""]
    /\ x_self_id = [h \in Conns |-> ""]
    /\ denied = [h \in Conns |-> NoDenial]
    /\ bot = [h \in Conns |-> NoBot]
    /\ resp = [h \in Conns |-> NoResponse]
    /\ exit = [h \in Conns |-> ""]
    /\ ws = [h \in Conns |-> NewWebSocket]
    /\ _clients = << >>
    /\ frames = [h \in Conns |-> << >>]
    /\ tasks = [h \in Conns |-> << >>]
    /\ connects = [h \in Conns |-> 0]
    /\ disconnects = [h \in Conns |-> 0]
    /\ peer_gone = [h \in Conns |-> FALSE]

\* Connection attempts are numbered in the order in which they arrive.
Arrives(h) == pc[h] = "idle" /\ (IF h = 1 THEN TRUE ELSE pc[h - 1] # "idle")

(* ----------------------------------------------------------- _handle_http *)
\* HTTPException(status_code=e.status_code, detail=e.reason)
http_denied_fixed(e) == [status |-> 403, detail |-> "Forbidden"]
http_denied(e) == [status |-> e.status, detail |-> e.reason]

\* After create_task the handler returns Response("", 204) at once.
http_await_dispatch == [pc |-> "http_wait", resp |-> NoResponse, exit |-> ""]
http_after_dispatch ==
    [pc |-> "done", resp |-> [status |-> HTTP_204_NO_CONTENT, detail |-> ""],
     exit |-> "return"]

\* A POST arrives: the handler starts and awaits request.body().
HttpStart(h, a) ==
    /\ UNCHANGED peer_gone
    /\ Arrives(h)
    /\ pc' = [pc EXCEPT ![h] = "http_body"]
    /\ kind' = [kind EXCEPT ![h] = "http"]
    /\ adapter' = [adapter EXCEPT ![h] = a]
    /\ UNCHANGED <<body, x_self_id, denied, bot, resp, exit, ws, _clients,
                   frames, tasks, connects, disconnects>>

\* The body is read and parsed, the adapter looked up, and the handler
\* awaits check_permission.
HttpBody(h, text) ==
    /\ UNCHANGED peer_gone
    /\ pc[h] = "http_body"
    /\ body' = [body EXCEPT ![h] = text]
    /\ LET p == json_loads(text)
       IN IF ~p.ok
          THEN /\ pc' = [pc EXCEPT ![h] = "done"]
               /\ exit' = [exit EXCEPT ![h] = "ValueError"]
               /\ UNCHANGED resp
          ELSE IF ~isinstance_dict(p.value)
          THEN /\ pc' = [pc EXCEPT ![h] = "done"]
               /\ exit' = [exit EXCEPT ![h] = "HTTPException"]
               /\ resp' = [resp EXCEPT ![h] =
                              [status |-> HTTP_400_BAD_REQUEST, detail |-> ""]]
          ELSE IF ~adapter_known(adapter[h])
          THEN /\ pc' = [pc EXCEPT ![h] = "done"]
               /\ exit' = [exit EXCEPT ![h] = "HTTPException"]
               /\ resp' = [resp EXCEPT ![h] =
                              [status |-> HTTP_404_NOT_FOUND,
                               detail |-> "adapter not found"]]
          ELSE /\ pc' = [pc EXCEPT ![h] = "http_perm"]
               /\ UNCHANGED <<exit, resp>>
    /\ UNCHANGED <<kind, adapter, x_self_id, denied, bot, ws, _clients,
                   frames, tasks, connects, disconnects>>

\* check_permission returns or raises; the rest of the handler runs to its
\* end.  Everything it writes except the registry.
HttpServe(h, r) ==
    /\ UNCHANGED peer_gone
    /\ pc[h] = "http_perm"
    /\ IF ~r.ok
       THEN /\ denied' = [denied EXCEPT ![h] = [status |-> r.status, reason |-> r.reason]]
            /\ resp' = [resp EXCEPT ![h] = http_denied(r)]
            /\ pc' = [pc EXCEPT ![h] = "done"]
            /\ exit' = [exit EXCEPT ![h] = "HTTPException"]
            /\ UNCHANGED <<x_self_id, bot, tasks>>
       ELSE /\ x_self_id' = [x_self_id EXCEPT ![h] = r.self_id]
            /\ bot' = [bot EXCEPT ![h] = [type |-> "http", self_id |-> r.self_id]]
            /\ tasks' = [tasks EXCEPT ![h] =
                            create_task(@, h, json_loads(body[h]).value)]
            /\ resp' = [resp EXCEPT ![h] = http_after_dispatch.resp]
            /\ pc' = [pc EXCEPT ![h] = http_after_dispatch.pc]
            /\ exit' = [exit EXCEPT ![h] = http_after_dispatch.exit]
            /\ UNCHANGED denied
    /\ UNCHANGED <<kind, adapter, body, ws, frames, connects, disconnects>>

HttpPermissionRegisters(h, r) ==
    /\ HttpServe(h, r)
    /\ _clients' = IF r.ok THEN _bot_connect(_clients, r.self_id, h) ELSE _clients

\* The registry is only read (for the warning), never written.
HttpPermission(h, r) ==
    /\ HttpServe(h, r)
    /\ UNCHANGED _clients

(* ----------------------------------------------------- _handle_ws_reverse *)
\* Every rejection closes with status.WS_1008_POLICY_VIOLATION, whatever the
\* RequestDenied carried.
ws_reject_code(e) == WS_1008_POLICY_VIOLATION

\* if x_self_id in self._clients
conflict(clients, id) == id \in DOMAIN clients

\* try: ... finally: self._bot_disconnect(bot) runs however the loop is left:
\* "closed" (the while condition), "exception", "cancelled".
finally_only_normal(how) == how = "closed"
finally_runs(how) == TRUE

\* while not ws.closed
loop_forever(w) == TRUE
loop_continues(w) == ~w.closed

\* if not data: continue / asyncio.create_task(bot.handle_message(data))
loop_dispatch(ts, h, data) ==
    IF truthy(data) THEN create_task(ts, h, data) ELSE ts

\* The handler leaves the read loop of connection h.
LeaveLoop(h, how, exc) ==
    /\ pc' = [pc EXCEPT ![h] = "done"]
    /\ IF finally_runs(how)
       THEN /\ _clients' = _bot_disconnect(_clients, bot[h].self_id)
            /\ disconnects' = [disconnects EXCEPT ![h] = @ + 1]
            /\ exit' = [exit EXCEPT ![h] =
                           IF _bot_disconnect_raises(_clients, bot[h].self_id)
                           THEN "KeyError" ELSE exc]
       ELSE /\ exit' = [exit EXCEPT ![h] = exc]
            /\ UNCHANGED <<_clients, disconnects>>

\* A WebSocket handshake arrives: the wrapper is made and the adapter looked
\* up; the handler awaits ws.close (unknown adapter) or check_permission.
WsStart(h, a) ==
    /\ UNCHANGED peer_gone
    /\ Arrives(h)
    /\ kind' = [kind EXCEPT ![h] = "websocket"]
    /\ adapter' = [adapter EXCEPT ![h] = a]
    /\ ws' = [ws EXCEPT ![h] = NewWebSocket]
    /\ pc' = [pc EXCEPT ![h] = IF adapter_known(a) THEN "ws_perm" ELSE "ws_close"]
    /\ UNCHANGED <<body, x_self_id, denied, bot, resp, exit, _clients,
                   frames, tasks, connects, disconnects>>

\* check_permission returns or raises; the registry is checked for the
\* identity; the handler awaits ws.close or, the session made, ws.accept.
WsPermission(h, r) ==
    /\ UNCHANGED peer_gone
    /\ pc[h] = "ws_perm"
    /\ IF ~r.ok
       THEN /\ denied' = [denied EXCEPT ![h] = [status |-> r.status, reason |-> r.reason]]
            /\ pc' = [pc EXCEPT ![h] = "ws_close"]
            /\ UNCHANGED <<x_self_id, bot>>
       ELSE /\ x_self_id' = [x_self_id EXCEPT ![h] = r.self_id]
            /\ UNCHANGED denied
            /\ IF conflict(_clients, r.self_id)
               THEN /\ pc' = [pc EXCEPT ![h] = "ws_close"]
                    /\ UNCHANGED bot
               ELSE /\ bot' = [bot EXCEPT ![h] =
                                 [type |-> "websocket", self_id |-> r.self_id]]
                    /\ pc' = [pc EXCEPT ![h] = "ws_accept"]
    /\ UNCHANGED <<kind, adapter, body, resp, exit, ws, _clients,
                   frames, tasks, connects, disconnects>>

\* The close of a rejected connection completes and the handler returns.
WsClose(h) ==
    /\ UNCHANGED peer_gone
    /\ pc[h] = "ws_close"
    /\ LET w == ws_close(ws[h], ws_reject_code(denied[h]))
       IN /\ ws' = [ws EXCEPT ![h] = w]
          /\ exit' = [exit EXCEPT ![h] = IF w.error = "" THEN "return" ELSE w.error]
    /\ pc' = [pc EXCEPT ![h] = "done"]
    /\ UNCHANGED <<kind, adapter, body, x_self_id, denied, bot, resp, _clients,
                   frames, tasks, connects, disconnects>>

\* ws.accept completes: the session is registered and the loop entered, up
\* to its first await of ws.receive.  A failed handshake raises out of the
\* handler before the try block.
WsAccept(h, ok) ==
    /\ UNCHANGED peer_gone
    /\ pc[h] = "ws_accept"
    /\ LET w == ws_accept(ws[h], ok)
       IN /\ ws' = [ws EXCEPT ![h] = w]
          /\ IF w.error # ""
             THEN /\ pc' = [pc EXCEPT ![h] = "done"]
                  /\ exit' = [exit EXCEPT ![h] = w.error]
                  /\ UNCHANGED <<_clients, connects, disconnects>>
             ELSE /\ connects' = [connects EXCEPT ![h] = @ + 1]
                  /\ IF ~loop_continues(w)
                     THEN /\ pc' = [pc EXCEPT ![h] = "done"]
                          /\ exit' = [exit EXCEPT ![h] = "return"]
                          /\ _clients' = _bot_disconnect(
                                 _bot_connect(_clients, bot[h].self_id, h),
                                 bot[h].self_id)
                          /\ disconnects' = [disconnects EXCEPT ![h] = @ + 1]
                     ELSE /\ pc' = [pc EXCEPT ![h] = "ws_recv"]
                          /\ _clients' = _bot_connect(_clients, bot[h].self_id, h)
                          /\ UNCHANGED <<exit, disconnects>>
    /\ UNCHANGED <<kind, adapter, body, x_self_id, denied, bot, resp,
                   frames, tasks>>

FramesSeen == LET n[i \in 0..NumConns] ==
                      IF i = 0 THEN 0 ELSE n[i - 1] + Len(frames[i])
              IN n[NumConns]

\* One await of ws.receive completes; the loop body runs, and the loop
\* either awaits the next receive or is left.
WsReceive(h, ev) ==
    /\ UNCHANGED peer_gone
    /\ pc[h] = "ws_recv"
    /\ ev \in FrameTexts => FramesSeen < MaxFrames /\ ~peer_gone[h]
    /\ ev = "disconnect" => peer_gone[h]
    /\ LET r == ws_receive(ws[h], ev)
       IN /\ ws' = [ws EXCEPT ![h] = r.ws]
          /\ frames' = IF ev \in FrameTexts
                       THEN [frames EXCEPT ![h] = Append(@, ev)] ELSE frames
          /\ IF r.raised
             THEN /\ LeaveLoop(h, "exception", r.ws.error)
                  /\ UNCHANGED tasks
             ELSE /\ tasks' = [tasks EXCEPT ![h] = loop_dispatch(@, h, r.data)]
                  /\ IF ~loop_continues(r.ws)
                     THEN LeaveLoop(h, "closed", "return")
                     ELSE UNCHANGED <<pc, exit, _clients, disconnects>>
    /\ UNCHANGED <<kind, adapter, body, x_self_id, denied, bot, resp, connects>>

\* The peer of an accepted connection goes away: the server queues the
\* disconnect message for the handler's next receive.
PeerDisconnect(h) ==
    /\ pc[h] = "ws_recv"
    /\ ~peer_gone[h]
    /\ peer_gone' = [peer_gone EXCEPT ![h] = TRUE]
    /\ UNCHANGED <<pc, kind, adapter, body, x_self_id, denied, bot, resp, exit,
                   ws, _clients, frames, tasks, connects, disconnects>>

\* The server cancels a WebSocket handler at the await it is suspended in.
Cancel(h) ==
    /\ UNCHANGED peer_gone
    /\ pc[h] \in {"ws_perm", "ws_close", "ws_accept", "ws_recv"}
    /\ IF pc[h] = "ws_recv"
       THEN LeaveLoop(h, "cancelled", "CancelledError")
       ELSE /\ pc' = [pc EXCEPT ![h] = "done"]
            /\ exit' = [exit EXCEPT ![h] = "CancelledError"]
            /\ UNCHANGED <<_clients, disconnects>>
    /\ UNCHANGED <<kind, adapter, body, x_self_id, denied, bot, resp, ws,
                   frames, tasks, connects>>

\* A dispatch unit (bot.handle_message) ends, normally or with an exception.
TaskFinish(h, i, how) ==
    /\ UNCHANGED peer_gone
    /\ i \in DOMAIN tasks[h]
    /\ tasks[h][i].status = "pending"
    /\ tasks' = [tasks EXCEPT ![h][i].status = how]
    /\ UNCHANGED <<pc, kind, adapter, body, x_self_id, denied, bot, resp, exit,
                   ws, _clients, frames, connects, disconnects>>

Next ==
    \/ \E h \in Conns, a \in AdapterNames : HttpStart(h, a)
    \/ \E h \in Conns, t \in Texts : HttpBody(h, t)
    \/ \E h \in Conns, r \in PermResults : HttpPermission(h, r)
    \/ \E h \in Conns, a \in AdapterNames : WsStart(h, a)
    \/ \E h \in Conns, r \in PermResults : WsPermission(h, r)
    \/ \E h \in Conns : WsClose(h)
    \/ \E h \in Conns, ok \in BOOLEAN : WsAccept(h, ok)
    \/ \E h \in Conns, ev \in RecvEvents : WsReceive(h, ev)
    \/ \E h \in Conns : PeerDisconnect(h)
    \/ \E h \in Conns : Cancel(h)
    \/ \E h \in Conns, i \in 1..(MaxFrames + 1), how \in {"done", "failed"} :
          TaskFinish(h, i, how)

Spec == Init /\ [][Next]_vars

\* Connection attempts whose peers send no frame: every handler step up to
\* the read loop, and the ways out of it.
NextConnect ==
    \/ \E h \in Conns, a \in AdapterNames : HttpStart(h, a)
    \/ \E h \in Conns, t \in Texts : HttpBody(h, t)
    \/ \E h \in Conns, r \in PermResults : HttpPermission(h, r)
    \/ \E h \in Conns, a \in AdapterNames : WsStart(h, a)
    \/ \E h \in Conns, r \in PermResults : WsPermission(h, r)
    \/ \E h \in Conns : WsClose(h)
    \/ \E h \in Conns, ok \in BOOLEAN : WsAccept(h, ok)
    \/ \E h \in Conns, ev \in RecvEvents \ FrameTexts : WsReceive(h, ev)
    \/ \E h \in Conns : PeerDisconnect(h)
    \/ \E h \in Conns : Cancel(h)
    \/ \E h \in Conns, how \in {"done", "failed"} : TaskFinish(h, 1, how)

SpecConnect == Init /\ [][NextConnect]_vars

(* ------------------------------------------------------- the read loop *)
\* The handlers that get frames: the first two connections to arrive.
\* Handlers share nothing but the registry, so two of them show every way
\* one read loop can be affected by another connection.
LoopConns == {1, 2}

\* WebSocket connections alone, their peers sending frames: every step of
\* _handle_ws_reverse and the dispatch units it schedules.
NextLoop ==
    \/ \E h \in LoopConns, a \in AdapterNames : WsStart(h, a)
    \/ \E h \in LoopConns, r \in PermResults : WsPermission(h, r)
    \/ \E h \in LoopConns : WsClose(h)
    \/ \E h \in LoopConns, ok \in BOOLEAN : WsAccept(h, ok)
    \/ \E h \in LoopConns, ev \in RecvEvents : WsReceive(h, ev)
    \/ \E h \in LoopConns : PeerDisconnect(h)
    \/ \E h \in LoopConns : Cancel(h)
    \/ \E h \in LoopConns, i \in 1..MaxFrames : TaskFinish(h, i, "done")

SpecLoop == Init /\ [][NextLoop]_vars

\* The event loop delivers a queued disconnect message to the receive() that
\* awaits it.
FairDelivery == \A h \in LoopConns : WF_vars(WsReceive(h, "disconnect"))

\* The handlers' own steps: dispatch units never act on a handler.
NextLive ==
    \/ \E h \in LoopConns, a \in AdapterNames : WsStart(h, a)
    \/ \E h \in LoopConns, r \in PermResults : WsPermission(h, r)
    \/ \E h \in LoopConns : WsClose(h)
    \/ \E h \in LoopConns, ok \in BOOLEAN : WsAccept(h, ok)
    \/ \E h \in LoopConns, ev \in RecvEvents : WsReceive(h, ev)
    \/ \E h \in LoopConns : PeerDisconnect(h)
    \/ \E h \in LoopConns : Cancel(h)

SpecLive == Init /\ [][NextLive]_vars /\ FairDelivery

(* ------------------------------------------------- the transport alone *)
\* A session's owner calls the methods of its transport in any order.
TAccept(h, ok) ==
    /\ UNCHANGED peer_gone
    /\ ws' = [ws EXCEPT ![h] = ws_accept(@, ok)]
    /\ UNCHANGED <<pc, kind, adapter, body, x_self_id, denied, bot, resp, exit,
                   _clients, frames, tasks, connects, disconnects>>

TClose(h, code) ==
    /\ UNCHANGED peer_gone
    /\ ws' = [ws EXCEPT ![h] = ws_close(@, code)]
    /\ UNCHANGED <<pc, kind, adapter, body, x_self_id, denied, bot, resp, exit,
                   _clients, frames, tasks, connects, disconnects>>

TReceive(h, ev) ==
    /\ UNCHANGED peer_gone
    /\ ws' = [ws EXCEPT ![h] = ws_receive(@, ev).ws]
    /\ UNCHANGED <<pc, kind, adapter, body, x_self_id, denied, bot, resp, exit,
                   _clients, frames, tasks, connects, disconnects>>

TSend(h, ok) ==
    /\ UNCHANGED peer_gone
    /\ ws' = [ws EXCEPT ![h] = ws_send(@, ok)]
    /\ UNCHANGED <<pc, kind, adapter, body, x_self_id, denied, bot, resp, exit,
                   _clients, frames, tasks, connects, disconnects>>

NextTransport ==
    \/ \E h \in Conns, ok \in BOOLEAN : TAccept(h, ok)
    \/ \E h \in Conns, code \in {WS_1000_NORMAL_CLOSURE, WS_1008_POLICY_VIOLATION} :
          TClose(h, code)
    \/ \E h \in Conns, ev \in RecvEvents : TReceive(h, ev)
    \/ \E h \in Conns, ok \in BOOLEAN : TSend(h, ok)

SpecTransport == Init /\ [][NextTransport]_vars

(* ================================================================ claims *)
\* A handler's session is live: registered by it and not yet cleaned up.
Live(h) == connects[h] = 1 /\ disconnects[h] = 0

\* The handler ended by a return or by the HTTPException it raised itself.
Answered(h) == pc[h] = "done" /\ exit[h] \in {"return", "HTTPException"}

\* The handler built no session, registered nothing and dispatched nothing.
NoSessionNoDispatch(h) ==
    /\ bot[h] = NoBot
    /\ tasks[h] = << >>
    /\ connects[h] = 0 /\ disconnects[h] = 0
    /\ \A i \in DOMAIN _clients : _clients[i] # h

\* The frames of a sequence that are JSON objects, as parsed values.
ObjectsOf(fs) ==
    LET objs == SelectSeq(fs, LAMBDA t : json_loads(t).ok /\ isinstance_dict(json_loads(t).value))
    IN [i \in 1..Len(objs) |-> json_loads(objs[i]).value]

PayloadsOf(ts) == [i \in 1..Len(ts) |-> ts[i].payload]

\* C1: while a WebSocket session is in its read loop, no other WebSocket
\* connection that resolved to the same identity is in its read loop, and
\* the registry maps the identity to the session in the loop.
C1_DuplicateRefused ==
    \A h1 \in Conns, h2 \in Conns :
        (h1 # h2 /\ pc[h1] = "ws_recv" /\ kind[h2] = "websocket"
           /\ x_self_id[h2] = x_self_id[h1])
        => /\ pc[h2] # "ws_recv"
           /\ x_self_id[h1] \in DOMAIN _clients
           /\ _clients[x_self_id[h1]] = h1

\* C2: a WebSocket handler that registered its session runs the cleanup
\* _bot_disconnect exactly once: never before it ends, never twice, and
\* always once it has ended, however the read loop was left.
C2_UnregisteredOnce ==
    \A h \in Conns :
        /\ connects[h] <= 1
        /\ disconnects[h] <= connects[h]
        /\ (pc[h] # "done" => disconnects[h] = 0)
        /\ (pc[h] = "done" /\ connects[h] = 1 => disconnects[h] = 1)

\* C2 witness: one registered session ended by an exception escaping
\* receive(), another by cancellation, each cleaned up once.
C2_Witness ==
    \E h1 \in Conns, h2 \in Conns :
        /\ pc[h1] = "done" /\ connects[h1] = 1 /\ exit[h1] = "RuntimeError"
        /\ disconnects[h1] = 1
        /\ pc[h2] = "done" /\ connects[h2] = 1 /\ exit[h2] = "CancelledError"
        /\ disconnects[h2] = 1

\* C3: between its registration and its own cleanup, a WebSocket session is
\* the registry's entry for its identity.
C3_LiveIsRegistered ==
    \A h \in Conns :
        Live(h) => /\ bot[h].self_id \in DOMAIN _clients
                   /\ _clients[bot[h].self_id] = h

\* C4: an HTTP handler that read a malformed body (invalid JSON, or JSON
\* that is no object) answers 400, builds no session and dispatches nothing.
C4_MalformedBody400 ==
    \A h \in Conns :
        (kind[h] = "http" /\ pc[h] = "done"
           /\ ~(json_loads(body[h]).ok /\ isinstance_dict(json_loads(body[h]).value)))
        => /\ resp[h].status = HTTP_400_BAD_REQUEST
           /\ NoSessionNoDispatch(h)

\* C5 as stated: a request naming an unknown adapter is answered 404 (HTTP)
\* or closed with 1008 (WebSocket) whatever its body, with no session,
\* registration or dispatch.
C5_UnknownAdapterAlways404 ==
    \A h \in Conns :
        (Answered(h) /\ adapter[h] \notin _adapters)
        => /\ kind[h] = "http" => resp[h].status = HTTP_404_NOT_FOUND
           /\ kind[h] = "websocket" => ws[h].close_code = WS_1008_POLICY_VIOLATION
           /\ NoSessionNoDispatch(h)

\* C5 amended: for a request naming an unknown adapter no session is built
\* or registered and nothing is dispatched; the WebSocket handler closes the
\* unaccepted connection with 1008; the HTTP handler answers 404 when the
\* body is a JSON object and 400 when it is JSON of another type.
C5_UnknownAdapterRejected ==
    \A h \in Conns :
        (kind[h] # "none" /\ adapter[h] \notin _adapters)
        => /\ NoSessionNoDispatch(h)
           /\ pc[h] \notin {"http_perm", "ws_perm", "ws_accept", "ws_recv"}
           /\ (kind[h] = "websocket" /\ Answered(h))
                => /\ ws[h].close_code = WS_1008_POLICY_VIOLATION
                   /\ ws[h].closed
                   /\ ws[h].client_state = "CONNECTING"
           /\ (kind[h] = "http" /\ pc[h] = "done" /\ json_loads(body[h]).ok)
                => resp[h] = IF isinstance_dict(json_loads(body[h]).value)
                             THEN [status |-> HTTP_404_NOT_FOUND,
                                   detail |-> "adapter not found"]
                             ELSE [status |-> HTTP_400_BAD_REQUEST, detail |-> ""]

\* C5 witness: an HTTP request for an unknown adapter answered 404 and a
\* WebSocket connection for an unknown adapter closed with 1008.
C5_Witness ==
    \E h1 \in Conns, h2 \in Conns :
        /\ kind[h1] = "http" /\ adapter[h1] \notin _adapters
        /\ resp[h1].status = HTTP_404_NOT_FOUND
        /\ kind[h2] = "websocket" /\ adapter[h2] \notin _adapters
        /\ Answered(h2) /\ ws[h2].close_code = WS_1008_POLICY_VIOLATION

\* C6 as stated: a denied attempt is answered with exactly the status and
\* reason of the RequestDenied: as HTTP status and detail, and as WebSocket
\* close code; no session, registration or dispatch.
C6_DenialVerbatim ==
    \A h \in Conns :
        (Answered(h) /\ denied[h] # NoDenial)
        => /\ kind[h] = "http" =>
                resp[h] = [status |-> denied[h].status, detail |-> denied[h].reason]
           /\ kind[h] = "websocket" => ws[h].close_code = denied[h].status
           /\ NoSessionNoDispatch(h)

\* C6 amended: a denied HTTP request is answered with exactly the status
\* and reason of the RequestDenied; a denied WebSocket connection is closed,
\* unaccepted, with 1008 whatever the RequestDenied carried; in both cases
\* no session is built, nothing is registered and nothing dispatched.
C6_DenialForwarded ==
    \A h \in Conns :
        denied[h] # NoDenial
        => /\ NoSessionNoDispatch(h)
           /\ x_self_id[h] = ""
           /\ kind[h] = "http" =>
                /\ pc[h] = "done"
                /\ resp[h] = [status |-> denied[h].status, detail |-> denied[h].reason]
           /\ (kind[h] = "websocket" /\ Answered(h))
                => /\ ws[h].close_code = WS_1008_POLICY_VIOLATION
                   /\ ws[h].closed
                   /\ ws[h].client_state = "CONNECTING"

\* C6 witness: a denied HTTP request answered 401 and a WebSocket
\* connection denied with 403 closed with 1008.
C6_Witness ==
    \E h1 \in Conns, h2 \in Conns :
        /\ kind[h1] = "http" /\ denied[h1].status = 401 /\ resp[h1].status = 401
        /\ kind[h2] = "websocket" /\ denied[h2].status = 403 /\ Answered(h2)
        /\ ws[h2].close_code = WS_1008_POLICY_VIOLATION

\* C7: no step of an HTTP handler changes the registry, and the step in
\* which check_permission returns an identity answers 204 and creates the
\* one dispatch unit of the request, carrying the parsed body.
C7_HttpLeavesRegistry ==
    [][\A h \in Conns :
          (kind'[h] = "http" /\ pc'[h] # pc[h])
          => /\ _clients' = _clients
             /\ (pc[h] = "http_perm" /\ x_self_id'[h] # "")
                  => /\ resp'[h] = [status |-> HTTP_204_NO_CONTENT, detail |-> ""]
                     /\ pc'[h] = "done"
                     /\ tasks[h] = << >>
                     /\ Len(tasks'[h]) = 1
                     /\ tasks'[h][1].bot = h
                     /\ tasks'[h][1].payload = json_loads(body[h]).value]_vars

\* C7 witness: an HTTP request answered 204 for an identity that a
\* WebSocket session in its read loop holds in the registry.
C7_Witness ==
    \E h1 \in Conns, h2 \in Conns :
        /\ kind[h1] = "http" /\ resp[h1].status = HTTP_204_NO_CONTENT
        /\ tasks[h1] # << >>
        /\ pc[h2] = "ws_recv"
        /\ x_self_id[h1] \in DOMAIN _clients
        /\ _clients[x_self_id[h1]] = h2

\* C8: the dispatch units of a WebSocket session carry exactly the JSON
\* objects among the frames its connection received, once each, in order.
C8_EveryObjectDispatched ==
    \A h \in Conns :
        kind[h] = "websocket"
        => /\ PayloadsOf(tasks[h]) = ObjectsOf(frames[h])
           /\ \A i \in DOMAIN tasks[h] : tasks[h][i].bot = h

\* C9: as soon as the dispatch unit of an HTTP request exists, and whatever
\* becomes of it (pending, done, failed), the request has been answered 204
\* and the handler has returned.
C9_AnsweredWithoutWaiting ==
    \A h \in Conns :
        (kind[h] = "http" /\ tasks[h] # << >>)
        => /\ resp[h] = [status |-> HTTP_204_NO_CONTENT, detail |-> ""]
           /\ pc[h] = "done" /\ exit[h] = "return"

\* C9 witness: one request answered 204 whose dispatch unit is still
\* pending, another answered 204 whose dispatch unit failed.
C9_Witness ==
    \E h1 \in Conns, h2 \in Conns :
        /\ kind[h1] = "http" /\ tasks[h1] # << >>
        /\ tasks[h1][1].status = "pending"
        /\ resp[h1].status = HTTP_204_NO_CONTENT
        /\ kind[h2] = "http" /\ tasks[h2] # << >>
        /\ tasks[h2][1].status = "failed"
        /\ resp[h2].status = HTTP_204_NO_CONTENT

\* C10: whatever the state of a transport, a call of close raises no error
\* and leaves the transport closed.
C10_CloseIdempotent ==
    \A h \in Conns :
        ws[h].last = "close" => ws[h].closed /\ ws[h].error = ""

\* A frame text that is not the text of a JSON object.
InvalidFrame(t) == ~json_loads(t).ok \/ ~isinstance_dict(json_loads(t).value)

\* C11: a receive() that got a frame which is invalid JSON or not an object
\* leaves the closed flag false, schedules nothing, leaves the registry and
\* the cleanup alone and puts the loop at its next receive(); the closed
\* flag is set in the loop only by a receive() that observed the peer's
\* disconnect, and that receive() schedules nothing.
C11_InvalidFrameSkipped ==
    [][\A h \in LoopConns :
          /\ (pc[h] = "ws_recv" /\ Len(frames'[h]) = Len(frames[h]) + 1
                /\ InvalidFrame(frames'[h][Len(frames'[h])]))
             => /\ ~ws'[h].closed
                /\ tasks'[h] = tasks[h]
                /\ pc'[h] = "ws_recv"
                /\ _clients' = _clients
                /\ disconnects'[h] = disconnects[h]
          /\ (pc[h] = "ws_recv" /\ ~ws[h].closed /\ ws'[h].closed)
             => /\ ws'[h].client_state = "DISCONNECTED"
                /\ frames'[h] = frames[h]
                /\ tasks'[h] = tasks[h]]_vars

\* C11 witness: a loop that got invalid JSON, then a JSON array, dispatched
\* nothing, is still registered and awaits its next frame.
C11_Witness ==
    \E h \in LoopConns :
        /\ pc[h] = "ws_recv"
        /\ frames[h] = <<"oops", "[1]">>
        /\ tasks[h] = << >>
        /\ ~ws[h].closed
        /\ x_self_id[h] \in DOMAIN _clients
        /\ _clients[x_self_id[h]] = h

\* C12: a cleanup that finds its identity absent from the registry leaves
\* the registry as it is and raises nothing: the handler ends the way its
\* loop was left.
C12_AbsentUnregisterNoop ==
    [][\A h \in Conns :
          (disconnects'[h] = disconnects[h] + 1
             /\ bot[h].self_id \notin DOMAIN _clients)
          => /\ _clients' = _clients
             /\ exit'[h] \in {"return", "RuntimeError", "CancelledError"}]_vars

\* C12 witness: two sessions of one identity were both registered and both
\* cleaned up; the second cleanup found the identity already removed.
C12_Witness ==
    \E h1 \in Conns, h2 \in Conns :
        /\ h1 # h2
        /\ pc[h1] = "done" /\ pc[h2] = "done"
        /\ bot[h1].type = "websocket" /\ bot[h2] = bot[h1]
        /\ connects[h1] = 1 /\ connects[h2] = 1
        /\ disconnects[h1] = 1 /\ disconnects[h2] = 1
        /\ exit[h2] \in {"return", "RuntimeError", "CancelledError"}
        /\ bot[h1].self_id \notin DOMAIN _clients

\* C13: on an accepted transport, after a send() that failed or a receive()
\* that failed with an error other than the peer's disconnect, the closed
\* flag is true.
C13_FailureCloses ==
    \A h \in Conns :
        (ws[h].app_state = "CONNECTED" /\ ws[h].client_state = "CONNECTED"
           /\ ws[h].last \in {"send", "receive"} /\ ws[h].error # "")
        => ws[h].closed

\* The payloads the loop dispatches for a sequence of frames: the objects that
\* pass `if not data`, in the order of their frames.
DispatchedOf(fs) == SelectSeq(ObjectsOf(fs), truthy)

\* C14: on each connection the dispatch units, in the order of their
\* creation, carry the dispatched frames in the order of their receipt.
C14_ScheduledInReceiptOrder ==
    \A h \in LoopConns :
        /\ Len(tasks[h]) = Len(DispatchedOf(frames[h]))
        /\ \A i \in 1..Len(tasks[h]) :
              tasks[h][i].payload = DispatchedOf(frames[h])[i]

\* C14 witness: two objects were received in turn, their units were created
\* in that order, and the second unit completed while the first is pending.
C14_Witness ==
    \E h \in LoopConns :
        /\ frames[h] = <<"{\"a\":1}", "{\"b\":2}">>
        /\ Len(tasks[h]) = 2
        /\ tasks[h][1].payload.items = {<<"a", 1>>}
        /\ tasks[h][2].payload.items = {<<"b", 2>>}
        /\ tasks[h][1].status = "pending"
        /\ tasks[h][2].status = "done"

\* C15: a scheduled dispatch unit is never removed or altered by its
\* connection: whatever the handler does (close observed, loop left,
\* session unregistered, cancellation) the unit keeps its session and
\* payload, changes state only by finishing, and can finish as long as it is
\* pending; and once the loop head has seen the transport closed the
\* handler has ended, receives no frame and schedules no unit.
C15_ScheduledUnitsSurvive ==
    /\ [](\A h \in LoopConns :
             /\ (connects[h] = 1 /\ ws[h].closed) => pc[h] = "done"
             /\ \A i \in DOMAIN tasks[h] :
                   tasks[h][i].status = "pending"
                   => ENABLED TaskFinish(h, i, "done"))
    /\ [][\A h \in LoopConns :
             /\ Len(tasks'[h]) >= Len(tasks[h])
             /\ \A i \in DOMAIN tasks[h] :
                   /\ tasks'[h][i].bot = tasks[h][i].bot
                   /\ tasks'[h][i].payload = tasks[h][i].payload
                   /\ tasks'[h][i].status \in {tasks[h][i].status, "done"}
                   /\ (tasks[h][i].status # "pending"
                         => tasks'[h][i].status = tasks[h][i].status)
             /\ (pc[h] = "done" \/ ws[h].closed)
                => /\ frames'[h] = frames[h]
                   /\ Len(tasks'[h]) = Len(tasks[h])]_vars

\* C15 witness: the peer disconnected after one dispatched frame; the
\* transport is closed, the handler has ended and unregistered its
\* session, and the unit is still pending and able to finish.
C15_Witness ==
    \E h \in LoopConns :
        /\ pc[h] = "done" /\ exit[h] = "return"
        /\ ws[h].closed
        /\ disconnects[h] = 1
        /\ x_self_id[h] \notin DOMAIN _clients
        /\ Len(tasks[h]) = 1
        /\ tasks[h][1].status = "pending"
        /\ ENABLED TaskFinish(h, 1, "done")

\* A WebSocket attempt that was turned away: unknown adapter, permission
\* denied, identity conflict (an identity but no session), or failed accept.
Rejected(h) ==
    /\ kind[h] = "websocket"
    /\ \/ adapter[h] \notin _adapters
       \/ denied[h] # NoDenial
       \/ (x_self_id[h] # "" /\ bot[h] = NoBot)
       \/ (ws[h].last = "accept" /\ ws[h].error # "")

\* C16: a session is registered only by the step that completes a
\* successful accept(), frames are received and units scheduled only for a
\* registered session, and an attempt that was turned away has no completed
\* accept, no registration, no cleanup, no frame and no unit, and none of
\* its steps changes the registry.
C16_AcceptRegisterReceive ==
    /\ [](\A h \in LoopConns :
             /\ connects[h] >= 1 => ws[h].app_state = "CONNECTED"
             /\ (frames[h] # << >> \/ tasks[h] # << >>) => connects[h] = 1
             /\ Rejected(h)
                => /\ ws[h].app_state # "CONNECTED"
                   /\ connects[h] = 0 /\ disconnects[h] = 0
                   /\ frames[h] = << >> /\ tasks[h] = << >>
                   /\ \A i \in DOMAIN _clients : _clients[i] # h)
    /\ [][\A h \in LoopConns :
             /\ connects'[h] # connects[h]
                => /\ pc[h] = "ws_accept"
                   /\ ws'[h].last = "accept" /\ ws'[h].error = ""
             /\ (frames'[h] # frames[h] \/ Len(tasks'[h]) # Len(tasks[h]))
                => connects[h] = 1
             /\ (pc'[h] # pc[h] /\ Rejected(h)') => _clients' = _clients]_vars

\* C16 witness: one connection was accepted, registered and has received a
\* frame; another, resolving to the same identity, was turned away at the
\* conflict check and closed with 1008 without being accepted.
C16_Witness ==
    \E h1 \in LoopConns, h2 \in LoopConns :
        /\ pc[h1] = "ws_recv" /\ connects[h1] = 1
        /\ ws[h1].app_state = "CONNECTED"
        /\ Len(frames[h1]) = 1 /\ Len(tasks[h1]) = 1
        /\ x_self_id[h1] \in DOMAIN _clients
        /\ _clients[x_self_id[h1]] = h1
        /\ pc[h2] = "done" /\ x_self_id[h2] = x_self_id[h1] /\ bot[h2] = NoBot
        /\ ws[h2].app_state = "DISCONNECTED"
        /\ ws[h2].close_code = WS_1008_POLICY_VIOLATION
        /\ connects[h2] = 0 /\ disconnects[h2] = 0

\* C17: under fair delivery, once the peer of an accepted connection has
\* disconnected, the read loop is left, the handler ends and its identity is
\* out of the registry, so that the conflict check of a later connection
\* with that identity passes.
C17_DisconnectFreesIdentity ==
    \A h \in LoopConns :
        (pc[h] = "ws_recv" /\ peer_gone[h])
        ~> (pc[h] = "done" /\ disconnects[h] = 1
              /\ x_self_id[h] \notin DOMAIN _clients)

\* C17 witness: a session ended by its peer's disconnect and was
\* unregistered; a connection that resolved to the same identity afterwards
\* passed the conflict check, was accepted and is registered in its place.
C17_Witness ==
    \E h1 \in LoopConns, h2 \in LoopConns :
        /\ pc[h1] = "done" /\ exit[h1] = "return"
        /\ peer_gone[h1] /\ ws[h1].closed
        /\ connects[h1] = 1 /\ disconnects[h1] = 1
        /\ pc[h2] = "ws_recv" /\ bot[h2] = bot[h1]
        /\ ws[h2].app_state = "CONNECTED"
        /\ x_self_id[h2] \in DOMAIN _clients
        /\ _clients[x_self_id[h2]] = h2

\* C18: every entry of the registry belongs to a WebSocket handler that
\* registered this identity and is still in its read loop, its cleanup not
\* yet run; and when no handler is running the registry is empty.
C18_NoStaleEntry ==
    /\ \A i \in DOMAIN _clients :
          LET h == _clients[i]
          IN /\ kind[h] = "websocket"
             /\ bot[h].self_id = i
             /\ pc[h] = "ws_recv"
             /\ connects[h] = 1 /\ disconnects[h] = 0
    /\ (\A h \in Conns : pc[h] \in {"idle", "done"}) => _clients = << >>

\* C18 witness: a registered WebSocket session in its loop holds the entry
\* of its identity while an HTTP request of the same identity has been
\* served and has ended.
C18_Witness ==
    \E h1 \in Conns, h2 \in Conns :
        /\ pc[h1] = "ws_recv"
        /\ x_self_id[h1] \in DOMAIN _clients
        /\ _clients[x_self_id[h1]] = h1
        /\ kind[h2] = "http" /\ pc[h2] = "done"
        /\ x_self_id[h2] = x_self_id[h1]
        /\ resp[h2].status = HTTP_204_NO_CONTENT

====
